---- MODULE Spec2Model ----
(***************************************************************************)
(* Go HTTP/2 uprobe programs of agent/src/ebpf/kernel/go_http2_bpf.c:      *)
(* socket enrichment, header record assembly and emission.                 *)
(***************************************************************************)
EXTENDS Integers, Sequences, FiniteSets, TLC

(***************************************************************************)
(* Bounds of the model.                                                    *)
(***************************************************************************)
\* largest number of header fields a source slice holds
MaxFields == 10
\* the handlers stop allocating once the socket id counter reached this value
MaxSocketId == 3

(***************************************************************************)
(* Program constants.                                                      *)
(***************************************************************************)
\* enum message_type
MSG_REQUEST == 1
MSG_RESPONSE == 2
\* data.message_type += 2
MSG_END_INCREMENT == 2
\* MSG_REQUEST -> MSG_REQUEST_END, MSG_RESPONSE -> MSG_RESPONSE_END
MSG_REQUEST_END == MSG_REQUEST + MSG_END_INCREMENT
MSG_RESPONSE_END == MSG_RESPONSE + MSG_END_INCREMENT
\* for (idx = 0; idx < 9; ++idx)
HEADER_LOOP_CEILING == 9
\* data->name.len & 0x03FF
LEN_MASK == 1023
\* fd, stream_id, header_len and value_len in front of info[]
HTTP2_BUFFER_HEAD == 16
\* capacity of __http2_buffer.info
HTTP2_BUFFER_INFO_SIZE == 1024
\* offsetof(struct __socket_data, data)
SOCKET_DATA_OFFSET == 128
\* (stack->len + 8) & 1023
SEND_PREFIX == 8
SEND_MASK == 1023

Pids == {100}
\* GO_VERSION(major, minor, patch)
GO_VERSION(a, b, c) == a * 65536 + b * 256 + c

\* compiler versions of the traced binaries
Versions == {GO_VERSION(1, 16, 15), GO_VERSION(1, 17, 0), GO_VERSION(1, 18, 3)}

\* the offsets user space found for the binary
ProcOffsets ==
  [CONN_GRPC_HTTP2_CLIENT |-> 16, CONN_GRPC_HTTP2_SERVER |-> 24,
   FRAMER_GRPC_TRANSPORT_LOOPY_WRITER |-> 32, WRITER_GRPC_TRANSPORT_FRAMER |-> 8,
   CONN_GRPC_TRANSPORT_BUFWRITER |-> 40]

\* struct ebpf_proc_info of a binary: its version, its offsets and the itab
\* of credentials.syscallConn found in it
ProcInfo(version, itab) ==
  [version |-> version, offsets |-> ProcOffsets,
   credentials_syscallConn_itab |-> itab]

\* proc_info_map: the processes user space has published
proc_info_map == [pid \in Pids |-> ProcInfo(GO_VERSION(1, 18, 3), 77)]

\* a process that runs the probed code and has no entry in proc_info_map
Strangers == {200}

FDs == {7, 8}
\* a __u32 as its two 16-bit halves <<high, low>>
U32(n) == <<n \div 65536, n % 65536>>

\* a - k on a __u32, for k below 65536
u32_sub(a, k) ==
  IF a[2] >= k THEN <<a[1], a[2] - k>>
  ELSE <<(a[1] + 65535) % 65536, a[2] + 65536 - k>>

Streams == {U32(1), U32(3)}
\* values of the nextStreamID field of a client connection
NextStreamIds == {U32(1), U32(3), U32(5)}
\* values the kernel reports as the current read or write sequence of a socket
ReadSeqs == {150, 160}
WriteSeqs == {0, 500}
\* bpf_get_current_pid_tgid(): the thread id of the one thread of process tgid
ThreadOf(tgid) == tgid + 1

(***************************************************************************)
(* The header fields the traced program passes: (name length, value        *)
(* length) pairs; the first catalogue holds fields whose payload fits the  *)
(* buffer, the second one also fields that do not.                         *)
(***************************************************************************)
Catalogue ==
  << << <<7, 4>>, <<5, 11>>, <<2000, 3>>, <<1024, 0>>, <<872, 4>>, <<1000, 8>> >>,
     << <<7, 4>>, <<1000, 1000>>, <<5, 11>>, <<1023, 1>>, <<3000, 2047>> >> >>

CatalogueEntry(p, i) == Catalogue[p][((i - 1) % Len(Catalogue[p])) + 1]

\* struct go_http2_header_field; ptr is the address the bytes are read from
HeaderField(p, i) ==
  [name  |-> [ptr |-> <<"field.name", i>>,  len |-> CatalogueEntry(p, i)[1]],
   value |-> [ptr |-> <<"field.value", i>>, len |-> CatalogueEntry(p, i)[2]]]

\* struct go_slice of header fields, as read from the traced process
FieldSlice(p, n) == [i \in 1..n |-> HeaderField(p, i)]

\* field counts of the sampled slices: none, few, the loop ceiling, beyond it
FieldCounts == {0, 1, 2, 6, 9, MaxFields}

FieldSlices ==
  {FieldSlice(1, n) : n \in FieldCounts} \cup {FieldSlice(2, n) : n \in {2, 5}}

\* what the traced process is seen to do: the descriptors of its connections
\* and the field slices it passes
\* struct http2writeResHeaders as the server write probe reads it: the status
\* code and the lengths of the date, content-type and content-length strings
ResHeaders(code, date, ctype, clen) ==
  [httpResCode |-> code, date |-> date, contentType |-> ctype,
   contentLength |-> clen]

NoRes == ResHeaders(0, 0, 0, 0)

FullLoad ==
  [fds |-> FDs, streams |-> {U32(1)}, next_ids |-> {U32(3)},
   fields |-> {FieldSlice(1, 0), FieldSlice(1, 2), FieldSlice(2, 2)},
   single |-> {HeaderField(1, 1), HeaderField(2, 2)},
   res |-> {NoRes, ResHeaders(200, 29, 0, 2)}, sides |-> {0, 1}, full |-> {{}}]
HeaderLoad ==
  [fds |-> {7}, streams |-> Streams, next_ids |-> NextStreamIds, fields |-> FieldSlices,
   single |-> {HeaderField(p, i) : p \in {1, 2}, i \in 1..6},
   res |-> {ResHeaders(c, d, t, 2 - d \div 29) : c \in {0, 200, 1404}, d \in {0, 29},
                                                 t \in {0, 16, 1000}},
   sides |-> {0, 1, 2}, full |-> {{}}]

\* a congested event channel: the numbers of the emissions it refuses
ChannelLoad ==
  [fds |-> {7}, streams |-> {U32(1)}, next_ids |-> {U32(3)},
   fields |-> {FieldSlice(1, 0), FieldSlice(1, 2), FieldSlice(2, 5)},
   single |-> {HeaderField(1, 1)}, res |-> {NoRes, ResHeaders(200, 29, 16, 2)},
   sides |-> {0, 1}, full |-> {{}, {1}, {2, 3}, {1, 2, 3, 4, 5}}]

EmptyString == [ptr |-> <<"null", 0>>, len |-> 0]

(***************************************************************************)
(* State.                                                                  *)
(***************************************************************************)
VARIABLES
  stack,             \* struct __http2_stack, the scratch event context
  trace_uid,         \* trace_uid_map[0].socket_id
  socket_info_map,   \* conn key -> struct socket_info_t
  trace_stats,       \* trace_stats_map[0].socket_map_count
  http2_tcp_seq_map, \* (tgid, fd, tcp_seq_end) -> tcp_seq_begin
  tables,            \* which of the global array entries a lookup finds
  output,            \* what the last invocation did, one entry per call of
                     \* http2_fill_buffer_and_send
  call,              \* the last invocation: entry point and what it read
  cpu                \* the concurrently running invocations (SpecConc)

vars == <<stack, trace_uid, socket_info_map, trace_stats, http2_tcp_seq_map,
          tables, output, call, cpu>>

(***************************************************************************)
(* Helpers that live outside go_http2_bpf.c.                               *)
(***************************************************************************)
\* gen_conn_key_id(tgid, fd)
gen_conn_key_id(tgid, fd) == <<tgid, fd>>

\* is_socket_info_valid(socket_info_ptr): non-NULL and a nonzero uid
is_socket_info_valid(map, key) == key \in DOMAIN map /\ map[key].uid # 0

\* is_http2_tls(): the flag kept in the scratch stack
is_http2_tls(m) == m.stack.tls

\* update_http2_tls(tls)
update_http2_tls(m, tls) == [m EXCEPT !.stack.tls = tls]

\* a & b on non-negative integers, bit by bit
RECURSIVE BitAnd(_, _)
BitAnd(a, b) ==
  IF a = 0 \/ b = 0 THEN 0
  ELSE (a % 2) * (b % 2) + 2 * BitAnd(a \div 2, b \div 2)

\* the machine state the helpers transform; enriched counts the calls of
\* http2_fill_common_socket of the invocation, channel_full holds the
\* emissions of the invocation the event channel refuses (by their number)
Machine ==
  [stack |-> stack, trace_uid |-> trace_uid, socket_info_map |-> socket_info_map,
   trace_stats |-> trace_stats, output |-> <<>>, enriched |-> 0,
   channel_full |-> {}]

(***************************************************************************)
(* get_previous_read_tcp_seq                                               *)
(***************************************************************************)
\* a miss answers the end of the read instead of 0
get_previous_read_tcp_seq_end(tgid, fd, seq_end) ==
  LET key == <<tgid, fd, seq_end>>
  IN  IF key \in DOMAIN http2_tcp_seq_map THEN http2_tcp_seq_map[key] ELSE seq_end

get_previous_read_tcp_seq(tgid, fd, seq_end) ==
  LET key == <<tgid, fd, seq_end>>
  IN  IF key \in DOMAIN http2_tcp_seq_map THEN http2_tcp_seq_map[key] ELSE 0

(***************************************************************************)
(* report_http2_header: the bytes handed to bpf_perf_event_output          *)
(***************************************************************************)
send_size(len) == BitAnd(len + SEND_PREFIX, SEND_MASK)

\* the number the next call of bpf_perf_event_output has in the invocation
emission(m) == Cardinality({i \in 1..Len(m.output) : m.output[i].outcome = "sent"}) + 1

\* a refused emission is tried a second time
report_http2_header_retry(m, data) ==
  LET len   == SOCKET_DATA_OFFSET + m.stack.send_buffer.syscall_len
      m1    == [m EXCEPT !.stack.events_num = 1, !.stack.len = len]
      entry == [outcome |-> "sent", name |-> data.name, value |-> data.value,
                stack |-> m1.stack, bytes |-> 1 + send_size(len),
                delivered |-> emission(m) \notin m.channel_full]
  IN  IF entry.delivered THEN [m1 EXCEPT !.output = Append(@, entry)]
      ELSE [m1 EXCEPT !.output = @ \o <<entry, entry>>]

\* the result of bpf_perf_event_output is not looked at: delivered tells
\* whether the channel took the record
report_http2_header(m, data) ==
  LET len   == SOCKET_DATA_OFFSET + m.stack.send_buffer.syscall_len
      m1    == [m EXCEPT !.stack.events_num = 1, !.stack.len = len]
      entry == [outcome |-> "sent", name |-> data.name, value |-> data.value,
                stack |-> m1.stack, bytes |-> 1 + send_size(len),
                delivered |-> emission(m) \notin m.channel_full]
  IN  [m1 EXCEPT !.output = Append(@, entry)]

(***************************************************************************)
(* http2_fill_common_socket                                                *)
(***************************************************************************)
\* lines 198-207: the sequence number and the direction of the event
resolve_tcp_seq(data, env) ==
  IF data.read
  THEN get_previous_read_tcp_seq(env.tgid, data.fd, env.read_seq)
  ELSE env.write_seq

resolve_direction(data) == IF data.read THEN "T_INGRESS" ELSE "T_EGRESS"

\* lines 286-305: look the socket id up, or take the next one
\* the stored entry is not looked at: every event takes a new id
update_socket_id_always_new(m, conn_key) ==
  LET uid == m.trace_uid + 1
  IN  [m EXCEPT !.stack.send_buffer.socket_id = uid,
                !.trace_uid = m.trace_uid + 1,
                !.socket_info_map =
                   [k \in DOMAIN @ \cup {conn_key} |->
                      IF k = conn_key THEN [uid |-> uid] ELSE @[k]]]

update_socket_id(m, conn_key) ==
  IF is_socket_info_valid(m.socket_info_map, conn_key)
  THEN [m EXCEPT !.stack.send_buffer.socket_id = m.socket_info_map[conn_key].uid]
  ELSE LET uid == m.trace_uid + 1
       IN  [m EXCEPT !.stack.send_buffer.socket_id = uid,
                     !.trace_uid = m.trace_uid + 1,
                     !.socket_info_map =
                        [k \in DOMAIN @ \cup {conn_key} |->
                           IF k = conn_key THEN [uid |-> uid] ELSE @[k]]]

\* __bpf_ntohs and htons: the two bytes of a 16-bit value change places
swap16(x) == (x % 256) * 256 + (x \div 256)

\* an address of n bytes that begins with the byte first
Address(n, first) == [i \in 1..n |-> IF i = 1 THEN first ELSE i]

\* struct sock: what lies at the offsets the enrichment reads, for a socket
\* of the given family, local address byte l and port sport, remote address
\* byte r and port dport; skc_dport is kept in network byte order
Sock(family, l, sport, r, dport) ==
  [STRUCT_SOCK_FAMILY_OFFSET |-> family,
   STRUCT_SOCK_DPORT_OFFSET |-> swap16(dport),
   STRUCT_SOCK_SPORT_OFFSET |-> sport,
   STRUCT_SOCK_SADDR_OFFSET |-> IF family = "PF_INET" THEN Address(4, l)
                                ELSE Address(4, 0),
   STRUCT_SOCK_DADDR_OFFSET |-> IF family = "PF_INET" THEN Address(4, r)
                                ELSE Address(4, 0),
   STRUCT_SOCK_IP6SADDR_OFFSET |-> IF family = "PF_INET6" THEN Address(16, l)
                                   ELSE Address(16, 0),
   STRUCT_SOCK_IP6DADDR_OFFSET |-> IF family = "PF_INET6" THEN Address(16, r)
                                   ELSE Address(16, 0)]

\* get_socket_from_fd: the sockets behind the descriptors of the process
get_socket_from_fd(fd) ==
  IF fd = 7 THEN Sock("PF_INET", 10, 40000, 20, 443)
  ELSE Sock("PF_INET6", 30, 8080, 40, 50051)

\* lines 238-278: the five-tuple of the socket
fill_tuple(m, sk) ==
  LET skc_family == sk.STRUCT_SOCK_FAMILY_OFFSET
      inet_dport == sk.STRUCT_SOCK_DPORT_OFFSET
      inet_sport == sk.STRUCT_SOCK_SPORT_OFFSET
      m1 == [m EXCEPT !.stack.send_buffer.tuple.l4_protocol = "IPPROTO_TCP",
                      !.stack.send_buffer.tuple.dport = swap16(inet_dport),
                      !.stack.send_buffer.tuple.num = inet_sport]
  IN  IF skc_family = "PF_INET"
      THEN [m1 EXCEPT !.stack.send_buffer.tuple.rcv_saddr = sk.STRUCT_SOCK_SADDR_OFFSET,
                      !.stack.send_buffer.tuple.daddr = sk.STRUCT_SOCK_DADDR_OFFSET,
                      !.stack.send_buffer.tuple.addr_len = 4]
      ELSE IF skc_family = "PF_INET6"
      THEN [m1 EXCEPT !.stack.send_buffer.tuple.rcv_saddr = sk.STRUCT_SOCK_IP6SADDR_OFFSET,
                      !.stack.send_buffer.tuple.daddr = sk.STRUCT_SOCK_IP6SADDR_OFFSET,
                      !.stack.send_buffer.tuple.addr_len = 16]
      ELSE m1

http2_fill_common_socket(m, data, env) ==
  LET tcp_seq  == resolve_tcp_seq(data, env)
      conn_key == gen_conn_key_id(env.tgid, data.fd)
      m1 == [m EXCEPT !.stack.send_buffer.source = "DATA_SOURCE_GO_HTTP2_UPROBE",
                      !.enriched = @ + 1]
      m2 == [m1 EXCEPT !.stack.send_buffer.tcp_seq = tcp_seq,
                       !.stack.send_buffer.direction = resolve_direction(data),
                       !.stack.send_buffer.data_type =
                          IF is_http2_tls(m) THEN "PROTO_TLS_HTTP2" ELSE "PROTO_HTTP2"]
      mt == fill_tuple(m2, get_socket_from_fd(data.fd))
      m3 == update_socket_id(mt, conn_key)
      m4 == [m3 EXCEPT !.trace_stats = @ + 1]
      fin(x) == [x EXCEPT !.stack.send_buffer.tgid = env.tgid,
                          !.stack.send_buffer.pid = env.pid]
  IN  IF tcp_seq = 0 THEN m1
      ELSE IF tables \in {"no_offset", "unready"} THEN m2
      ELSE IF tables = "no_uid" THEN mt
      ELSE IF is_socket_info_valid(m.socket_info_map, conn_key) THEN fin(m3)
      ELSE IF tables = "no_stats" THEN m3
      ELSE fin(m4)

(***************************************************************************)
(* http2_fill_buffer_and_send                                              *)
(***************************************************************************)
\* a saturating clamp to the capacity instead of the mask
mask_len_clamp(len) == IF len > LEN_MASK THEN LEN_MASK ELSE len

\* a mask one bit short
mask_len_nine_bits(len) == BitAnd(len, 511)

mask_len(len) == BitAnd(len, LEN_MASK)

skipped(m, data, why) ==
  [m EXCEPT !.output = Append(@, [outcome |-> why, name |-> data.name,
                                  value |-> data.value, stack |-> m.stack,
                                  bytes |-> 0, delivered |-> FALSE])]

\* the payload length is stored in front of the capacity check
http2_fill_buffer_and_send_len_first(m, data) ==
  IF m.stack.send_buffer.tcp_seq = 0 THEN skipped(m, data, "no_tcp_seq")
  ELSE
    LET header_len == mask_len(data.name.len)
        value_len  == mask_len(data.value.len)
        count      == HTTP2_BUFFER_HEAD + header_len + value_len
        m1 == [m EXCEPT !.stack.send_buffer.msg_type = data.message_type,
                        !.stack.http2_buffer.fd = data.fd,
                        !.stack.http2_buffer.stream_id = data.stream,
                        !.stack.http2_buffer.header_len = header_len,
                        !.stack.http2_buffer.value_len = value_len]
        m2 == [m1 EXCEPT !.stack.send_buffer.syscall_len = count,
                         !.stack.send_buffer.data_len = count]
    IN  IF count > HTTP2_BUFFER_INFO_SIZE THEN skipped(m2, data, "too_long")
        ELSE report_http2_header(m2, data)

http2_fill_buffer_and_send(m, data) ==
  IF m.stack.send_buffer.tcp_seq = 0 THEN skipped(m, data, "no_tcp_seq")
  ELSE
    LET header_len == mask_len(data.name.len)
        value_len  == mask_len(data.value.len)
        count      == HTTP2_BUFFER_HEAD + header_len + value_len
        m1 == [m EXCEPT !.stack.send_buffer.msg_type = data.message_type,
                        !.stack.http2_buffer.fd = data.fd,
                        !.stack.http2_buffer.stream_id = data.stream,
                        !.stack.http2_buffer.header_len = header_len,
                        !.stack.http2_buffer.value_len = value_len]
        m2 == [m1 EXCEPT !.stack.send_buffer.syscall_len = count,
                         !.stack.send_buffer.data_len = count]
    IN  IF count > HTTP2_BUFFER_INFO_SIZE THEN skipped(m1, data, "too_long")
        ELSE report_http2_header(m2, data)

(***************************************************************************)
(* submit_http2_headers                                                    *)
(***************************************************************************)
\* lines 390-400: the unrolled loop over the first fields of the slice
\* the loop runs over the whole slice
RECURSIVE submit_loop_no_ceiling(_, _, _, _)
submit_loop_no_ceiling(m, data, fields, idx) ==
  IF idx >= Len(fields) THEN m
  ELSE submit_loop_no_ceiling(
         http2_fill_buffer_and_send(m, [data EXCEPT !.name = fields[idx + 1].name,
                                                    !.value = fields[idx + 1].value]),
         data, fields, idx + 1)

RECURSIVE submit_loop(_, _, _, _)
submit_loop(m, data, fields, idx) ==
  IF idx >= HEADER_LOOP_CEILING \/ idx >= Len(fields) THEN m
  ELSE submit_loop(
         http2_fill_buffer_and_send(m, [data EXCEPT !.name = fields[idx + 1].name,
                                                    !.value = fields[idx + 1].value]),
         data, fields, idx + 1)

\* the kind of the end marker is left at the base kind
end_marker_same_kind(data) ==
  [data EXCEPT !.name = [@ EXCEPT !.len = 0], !.value = [@ EXCEPT !.len = 0]]

\* lines 402-409: the end marker
end_marker(data) ==
  [data EXCEPT !.name = [@ EXCEPT !.len = 0], !.value = [@ EXCEPT !.len = 0],
               !.message_type = @ + MSG_END_INCREMENT]

LastField(fields) ==
  LET n == IF Len(fields) < HEADER_LOOP_CEILING THEN Len(fields)
           ELSE HEADER_LOOP_CEILING
  IN  IF n = 0 THEN [name |-> EmptyString, value |-> EmptyString] ELSE fields[n]

\* the enrichment is run again in front of the end marker
submit_http2_headers_enrich_again(m, headers, env) ==
  LET data == [read |-> headers.read, fd |-> headers.fd, stream |-> headers.stream,
               message_type |-> headers.message_type,
               name |-> EmptyString, value |-> EmptyString]
      m1 == http2_fill_common_socket(m, data, env)
      m2 == submit_loop(m1, data, headers.fields, 0)
      m3 == http2_fill_common_socket(m2, data, env)
      last == [data EXCEPT !.name = LastField(headers.fields).name,
                           !.value = LastField(headers.fields).value]
  IN  http2_fill_buffer_and_send(m3, end_marker(last))

submit_http2_headers(m, headers, env) ==
  LET data == [read |-> headers.read, fd |-> headers.fd, stream |-> headers.stream,
               message_type |-> headers.message_type,
               name |-> EmptyString, value |-> EmptyString]
      m1 == http2_fill_common_socket(m, data, env)
      m2 == submit_loop(m1, data, headers.fields, 0)
      last == [data EXCEPT !.name = LastField(headers.fields).name,
                           !.value = LastField(headers.fields).value]
  IN  http2_fill_buffer_and_send(m2, end_marker(last))

(***************************************************************************)
(* Descriptor paths: the TLS flag they leave in the scratch stack.  The    *)
(* descriptor itself is what the walk through the traced process finds.    *)
(***************************************************************************)
get_fd_from_http2serverConn_ctx(m) == update_http2_tls(m, FALSE)

get_fd_from_http2ClientConn(m) == update_http2_tls(m, FALSE)

\* the three gRPC paths: wrapped says whether the conn interface has the
\* credentials.syscallConn type
get_fd_from_grpc_conn(m, wrapped) ==
  IF wrapped THEN update_http2_tls(update_http2_tls(m, FALSE), TRUE)
  ELSE update_http2_tls(m, FALSE)

(***************************************************************************)
(* Initial state: zeroed maps and scratch memory.                          *)
(***************************************************************************)
ZeroStack ==
  [events_num |-> 0, len |-> 0, tls |-> FALSE,
   send_buffer |-> [source |-> "", tcp_seq |-> 0, direction |-> "T_EGRESS",
                    data_type |-> "PROTO_UNKNOWN", socket_id |-> 0, tgid |-> 0,
                    pid |-> 0, msg_type |-> 0, syscall_len |-> 0, data_len |-> 0,
                    tuple |-> [l4_protocol |-> "", dport |-> 0, num |-> 0,
                               rcv_saddr |-> <<>>, daddr |-> <<>>, addr_len |-> 0]],
   http2_buffer |-> [fd |-> 0, stream_id |-> U32(0), header_len |-> 0, value_len |-> 0]]

NoCall ==
  [op |-> "none", tgid |-> 0, fd |-> 0, read |-> FALSE, message_type |-> 0,
   stream |-> U32(0), fields |-> <<>>, read_seq |-> 0, write_seq |-> 0,
   tcp_seq |-> 0, wrapped |-> FALSE, res |-> NoRes, info |-> TRUE, side |-> 0,
   enriched |-> 0, channel_full |-> {}]

TableStates == {"ready", "no_offset", "unready", "no_uid", "no_stats"}

\* the CPUs that run probes at the same time, each with a scratch stack
CPUs == {0, 1}

IdleCpu ==
  [c \in CPUs |-> [pc |-> "idle", conn_key |-> <<0, 0>>, socket_id |-> 0,
                   first |-> FALSE]]

Init ==
  /\ stack = ZeroStack
  /\ trace_uid = 0
  /\ socket_info_map = <<>>
  /\ trace_stats = 0
  /\ http2_tcp_seq_map = <<>>
  /\ tables \in TableStates
  /\ output = <<>>
  /\ call = NoCall
  /\ cpu = IdleCpu

(***************************************************************************)
(* The environment: user space and the socket tracer.                      *)
(***************************************************************************)
Quiet == output' = <<>> /\ call' = NoCall

\* user space publishes the offsets and the counters
PrepareTables ==
  /\ tables # "ready"
  /\ tables' = "ready"
  /\ Quiet
  /\ UNCHANGED <<stack, trace_uid, socket_info_map, trace_stats,
                 http2_tcp_seq_map, cpu>>

\* reads the socket tracer saw: (tgid, fd, tcp_seq_end, tcp_seq_begin)
ReadSamples == {<<100, 7, 150, 100>>}

\* the socket tracer records where a read began
RecordRead ==
  \E r \in ReadSamples :
    /\ <<r[1], r[2], r[3]>> \notin DOMAIN http2_tcp_seq_map
    /\ http2_tcp_seq_map' =
         [k \in DOMAIN http2_tcp_seq_map \cup {<<r[1], r[2], r[3]>>} |->
            IF k = <<r[1], r[2], r[3]>> THEN r[4] ELSE http2_tcp_seq_map[k]]
    /\ Quiet
    /\ UNCHANGED <<stack, trace_uid, socket_info_map, trace_stats, tables, cpu>>

\* the socket tracer drops the entry of a closed descriptor
CloseSocket ==
  \E key \in DOMAIN socket_info_map :
    /\ socket_info_map' = [k \in DOMAIN socket_info_map \ {key} |-> socket_info_map[k]]
    /\ trace_stats' = IF trace_stats > 0 THEN trace_stats - 1 ELSE 0
    /\ Quiet
    /\ UNCHANGED <<stack, trace_uid, http2_tcp_seq_map, tables, cpu>>

(***************************************************************************)
(* Probe entry points, one invocation each.                                *)
(***************************************************************************)
Env(tgid, read_seq, write_seq) ==
  [tgid |-> tgid, pid |-> ThreadOf(tgid), read_seq |-> read_seq,
   write_seq |-> write_seq]

Commit(m, c) ==
  /\ stack' = m.stack
  /\ trace_uid' = m.trace_uid
  /\ socket_info_map' = m.socket_info_map
  /\ trace_stats' = m.trace_stats
  /\ output' = m.output
  /\ call' = [c EXCEPT !.enriched = m.enriched, !.channel_full = m.channel_full]
  /\ UNCHANGED <<http2_tcp_seq_map, tables, cpu>>

Headers(read, fd, fields, stream, message_type) ==
  [read |-> read, fd |-> fd, fields |-> fields, stream |-> stream,
   message_type |-> message_type]

CallOf(op, tgid, headers, env, wrapped) ==
  [op |-> op, tgid |-> tgid, fd |-> headers.fd, read |-> headers.read,
   message_type |-> headers.message_type, stream |-> headers.stream,
   fields |-> headers.fields, read_seq |-> env.read_seq,
   write_seq |-> env.write_seq, tcp_seq |-> resolve_tcp_seq(headers, env),
   wrapped |-> wrapped, res |-> NoRes, info |-> TRUE, side |-> 0,
   enriched |-> 0, channel_full |-> {}]

\* the probe has returned and its records are with the reader
Return ==
  /\ call # NoCall
  /\ Quiet
  /\ UNCHANGED <<stack, trace_uid, socket_info_map, trace_stats,
                 http2_tcp_seq_map, tables, cpu>>

\* a probe fires when the previous one on this CPU has returned
Idle == call = NoCall /\ trace_uid < MaxSocketId

\* the event channel refuses the emissions of the invocation numbered in full
Channel(m, full) == [m EXCEPT !.channel_full = full]

\* an entry point that hands a field slice to submit_http2_headers
SubmitEntry(op, read, message_type, m, wrapped, side, load) ==
  \E tgid \in Pids, fd \in load.fds, stream \in load.streams, fields \in load.fields,
     seq \in IF read THEN ReadSeqs ELSE WriteSeqs, full \in load.full :
    LET env     == IF read THEN Env(tgid, seq, 0) ELSE Env(tgid, 0, seq)
        headers == Headers(read, fd, fields, stream, message_type)
    IN  Commit(submit_http2_headers(Channel(m, full), headers, env),
               [CallOf(op, tgid, headers, env, wrapped) EXCEPT !.side = side])

\* the check is made after the descriptor path has reset the TLS flag
lookup_miss_after_reset(m) == update_http2_tls(m, FALSE)

\* if (!info) return 0;
lookup_miss(m) == m

\* bpf_map_lookup_elem(&proc_info_map, &pid) finds nothing
LookupMiss(op) ==
  \E pid \in Strangers :
    /\ pid \notin DOMAIN proc_info_map
    /\ Commit(lookup_miss(Machine),
              [NoCall EXCEPT !.op = op, !.tgid = pid, !.info = FALSE])

uprobe_go_http2serverConn_processHeaders(load) ==
  /\ Idle
  /\ \/ LookupMiss("http2serverConn_processHeaders")
     \/ SubmitEntry("http2serverConn_processHeaders", TRUE, MSG_REQUEST,
                    get_fd_from_http2serverConn_ctx(Machine), FALSE, 0, load)

uprobe_go_http2clientConnReadLoop_handleResponse(load) ==
  /\ Idle
  /\ \/ LookupMiss("http2clientConnReadLoop_handleResponse")
     \/ SubmitEntry("http2clientConnReadLoop_handleResponse", TRUE, MSG_RESPONSE,
                    get_fd_from_http2ClientConn(Machine), FALSE, 0, load)

uprobe_go_loopyWriter_writeHeader(load) ==
  /\ Idle
  /\ \/ LookupMiss("loopyWriter_writeHeader")
     \/ \E wrapped \in BOOLEAN, is_server_side \in load.sides :
          SubmitEntry("loopyWriter_writeHeader", FALSE,
                      IF is_server_side # 0 THEN MSG_RESPONSE ELSE MSG_REQUEST,
                      get_fd_from_grpc_conn(Machine, wrapped), wrapped,
                      is_server_side, load)

uprobe_go_http2Server_operateHeaders(load) ==
  /\ Idle
  /\ \/ LookupMiss("http2Server_operateHeaders")
     \/ \E wrapped \in BOOLEAN :
          SubmitEntry("http2Server_operateHeaders", TRUE, MSG_REQUEST,
                      get_fd_from_grpc_conn(Machine, wrapped), wrapped, 0, load)

uprobe_go_http2Client_operateHeaders(load) ==
  /\ Idle
  /\ \/ LookupMiss("http2Client_operateHeaders")
     \/ \E wrapped \in BOOLEAN :
          SubmitEntry("http2Client_operateHeaders", TRUE, MSG_RESPONSE,
                      get_fd_from_grpc_conn(Machine, wrapped), wrapped, 0, load)

\* data.stream -= 2 on a __u32
client_stream(next_stream_id) == u32_sub(next_stream_id, 2)

\* lines 442-480: the single-header write on machine m, for the connection
\* with descriptor fd whose nextStreamID field holds next
http2ClientConn_writeHeader(m, fd, next, field, env) ==
  LET data == [read |-> FALSE, fd |-> fd, message_type |-> MSG_REQUEST,
               stream |-> client_stream(next),
               name |-> EmptyString, value |-> EmptyString]
      m1   == http2_fill_common_socket(get_fd_from_http2ClientConn(m), data, env)
      sent == [data EXCEPT !.name = field.name, !.value = field.value]
  IN  http2_fill_buffer_and_send(m1, sent)

uprobe_go_http2ClientConn_writeHeader(load) ==
  /\ Idle
  /\ \/ LookupMiss("http2ClientConn_writeHeader")
     \/ \E tgid \in Pids, fd \in load.fds, next \in load.next_ids,
           field \in load.single, seq \in WriteSeqs, full \in load.full :
          LET env == Env(tgid, 0, seq)
          IN  Commit(http2ClientConn_writeHeader(Channel(Machine, full), fd, next,
                                                 field, env),
                     CallOf("http2ClientConn_writeHeader", tgid,
                            Headers(FALSE, fd, <<field>>, client_stream(next),
                                    MSG_REQUEST),
                            env, FALSE))

\* the header-block write reports the nextStreamID field as it is
http2ClientConn_writeHeaders_no_sub(m, fd, next, env) ==
  LET data == [read |-> FALSE, fd |-> fd, message_type |-> MSG_REQUEST_END,
               stream |-> next,
               name |-> EmptyString, value |-> EmptyString]
      m1   == http2_fill_common_socket(get_fd_from_http2ClientConn(m), data, env)
  IN  http2_fill_buffer_and_send(m1, data)

\* lines 495-517: the header-block write on machine m
http2ClientConn_writeHeaders(m, fd, next, env) ==
  LET data == [read |-> FALSE, fd |-> fd, message_type |-> MSG_REQUEST_END,
               stream |-> client_stream(next),
               name |-> EmptyString, value |-> EmptyString]
      m1   == http2_fill_common_socket(get_fd_from_http2ClientConn(m), data, env)
  IN  http2_fill_buffer_and_send(m1, data)

uprobe_go_http2ClientConn_writeHeaders(load) ==
  /\ Idle
  /\ \/ LookupMiss("http2ClientConn_writeHeaders")
     \/ \E tgid \in Pids, fd \in load.fds, next \in load.next_ids, seq \in WriteSeqs,
           full \in load.full :
          LET env == Env(tgid, 0, seq)
          IN  Commit(http2ClientConn_writeHeaders(Channel(Machine, full), fd, next,
                                                  env),
                     CallOf("http2ClientConn_writeHeaders", tgid,
                            Headers(FALSE, fd, <<>>, client_stream(next),
                                    MSG_REQUEST_END),
                            env, FALSE))

\* the digits of the code itself, without the reduction modulo 1000
status_value_no_mod(code) ==
  (code \div 100) * 100 + ((code % 100) \div 10) * 10 + (code % 10)

\* lines 593-600: the three digits of the status code
status_value(code) ==
  ((code % 1000) \div 100) * 100 + ((code % 100) \div 10) * 10 + (code % 10)

LocalString(text, len) == [ptr |-> <<text, 0>>, len |-> len]

\* lines 597-630: a header is sent when its value is there
send_if(m, cond, data, name, value) ==
  IF cond THEN http2_fill_buffer_and_send(m, [data EXCEPT !.name = name,
                                                         !.value = value])
  ELSE m

uprobe_go_http2serverConn_writeHeaders(load) ==
  /\ Idle
  /\ \/ LookupMiss("http2serverConn_writeHeaders")
     \/ \E tgid \in Pids, fd \in load.fds, stream \in load.streams, res \in load.res,
           seq \in WriteSeqs, full \in load.full :
          LET env  == Env(tgid, 0, seq)
              data == [read |-> FALSE, fd |-> fd, message_type |-> MSG_RESPONSE,
                       stream |-> stream, name |-> EmptyString, value |-> EmptyString]
              date  == [ptr |-> <<"headerData.date", 0>>, len |-> res.date]
              ctype == [ptr |-> <<"headerData.contentType", 0>>,
                        len |-> res.contentType]
              clen  == [ptr |-> <<"headerData.contentLength", 0>>,
                        len |-> res.contentLength]
              m1 == http2_fill_common_socket(
                      Channel(get_fd_from_http2serverConn_ctx(Machine), full),
                      [data EXCEPT !.stream = U32(0)], env)
              m2 == send_if(m1, res.httpResCode # 0, data, LocalString(":status", 7),
                            [ptr |-> <<"status_value", status_value(res.httpResCode)>>,
                             len |-> 3])
              m3 == send_if(m2, res.date # 0, data, LocalString("date", 4), date)
              m4 == send_if(m3, res.contentType # 0, data,
                            LocalString("content-type", 12), ctype)
              m5 == send_if(m4, res.contentLength # 0, data,
                            LocalString("content-length", 14), clen)
              last == [data EXCEPT !.name = LocalString("content-length", 14),
                                   !.value = clen]
          IN  Commit(http2_fill_buffer_and_send(m5, end_marker(last)),
                     [CallOf("http2serverConn_writeHeaders", tgid,
                             Headers(FALSE, fd, <<>>, stream, MSG_RESPONSE), env, FALSE)
                        EXCEPT !.res = res])

Probes(load) ==
  \/ uprobe_go_http2ClientConn_writeHeader(load)
  \/ uprobe_go_http2ClientConn_writeHeaders(load)
  \/ uprobe_go_http2serverConn_writeHeaders(load)
  \/ uprobe_go_http2serverConn_processHeaders(load)
  \/ uprobe_go_http2clientConnReadLoop_handleResponse(load)
  \/ uprobe_go_loopyWriter_writeHeader(load)
  \/ uprobe_go_http2Server_operateHeaders(load)
  \/ uprobe_go_http2Client_operateHeaders(load)

Next ==
  \/ PrepareTables
  \/ RecordRead
  \/ CloseSocket
  \/ Return
  \/ Probes(FullLoad)

\* sequential invocations on one CPU, in every state of the global tables
Spec == Init /\ [][Next]_vars

InitHeaders == Init /\ tables = "ready"

NextHeaders ==
  \/ RecordRead
  \/ Return
  \/ Probes(HeaderLoad)

\* one connection of a prepared agent, with every sampled field slice
SpecHeaders == InitHeaders /\ [][NextHeaders]_vars

NextChannel ==
  \/ RecordRead
  \/ Return
  \/ Probes(ChannelLoad)

\* one connection of a prepared agent whose event channel refuses records
SpecChannel == InitHeaders /\ [][NextChannel]_vars

(***************************************************************************)
(* Two CPUs inside http2_fill_common_socket at once: lines 286-305 one     *)
(* map access at a time.  Both events have a sequence number and find the  *)
(* tables ready.                                                           *)
(***************************************************************************)
Step(c, pc, rec) == cpu' = [cpu EXCEPT ![c] = [rec EXCEPT !.pc = pc]]

\* a probe fires on CPU c for descriptor fd of process tgid
Enter(c) ==
  /\ cpu[c].pc = "idle"
  /\ trace_uid < MaxSocketId
  /\ \E tgid \in Pids, fd \in FDs :
       Step(c, "lookup", [cpu[c] EXCEPT !.conn_key = gen_conn_key_id(tgid, fd),
                                        !.socket_id = 0, !.first = FALSE])
  /\ UNCHANGED <<stack, trace_uid, socket_info_map, trace_stats,
                 http2_tcp_seq_map, tables, output, call>>

\* lines 290-292: socket_info_map__lookup and the valid branch
LookupSocketInfo(c) ==
  /\ cpu[c].pc = "lookup"
  /\ IF is_socket_info_valid(socket_info_map, cpu[c].conn_key)
     THEN Step(c, "done", [cpu[c] EXCEPT !.socket_id =
                                           socket_info_map[cpu[c].conn_key].uid])
     ELSE Step(c, "read_uid", [cpu[c] EXCEPT !.first = TRUE])
  /\ UNCHANGED <<stack, trace_uid, socket_info_map, trace_stats,
                 http2_tcp_seq_map, tables, output, call>>

\* line 294: send_buffer->socket_id = trace_uid->socket_id + 1
ReadTraceUid(c) ==
  /\ cpu[c].pc = "read_uid"
  /\ Step(c, "inc_uid", [cpu[c] EXCEPT !.socket_id = trace_uid + 1])
  /\ UNCHANGED <<stack, trace_uid, socket_info_map, trace_stats,
                 http2_tcp_seq_map, tables, output, call>>

\* line 295: trace_uid->socket_id++
IncTraceUid(c) ==
  /\ cpu[c].pc = "inc_uid"
  /\ trace_uid' = trace_uid + 1
  /\ Step(c, "update", cpu[c])
  /\ UNCHANGED <<stack, socket_info_map, trace_stats, http2_tcp_seq_map, tables,
                 output, call>>

\* lines 297-300: socket_info_map__update
UpdateSocketInfo(c) ==
  /\ cpu[c].pc = "update"
  /\ socket_info_map' =
       [k \in DOMAIN socket_info_map \cup {cpu[c].conn_key} |->
          IF k = cpu[c].conn_key THEN [uid |-> cpu[c].socket_id]
          ELSE socket_info_map[k]]
  /\ Step(c, "stats", cpu[c])
  /\ UNCHANGED <<stack, trace_uid, trace_stats, http2_tcp_seq_map, tables,
                 output, call>>

\* lines 301-304: trace_stats->socket_map_count++
CountSocket(c) ==
  /\ cpu[c].pc = "stats"
  /\ trace_stats' = trace_stats + 1
  /\ Step(c, "done", cpu[c])
  /\ UNCHANGED <<stack, trace_uid, socket_info_map, http2_tcp_seq_map, tables,
                 output, call>>

\* the records are sent with the socket id of the scratch stack; the probe returns
Leave(c) ==
  /\ cpu[c].pc = "done"
  /\ Step(c, "idle", cpu[c])
  /\ UNCHANGED <<stack, trace_uid, socket_info_map, trace_stats,
                 http2_tcp_seq_map, tables, output, call>>

InitConc == Init /\ tables = "ready"

NextConc ==
  \E c \in CPUs :
    \/ Enter(c)
    \/ LookupSocketInfo(c)
    \/ ReadTraceUid(c)
    \/ IncTraceUid(c)
    \/ UpdateSocketInfo(c)
    \/ CountSocket(c)
    \/ Leave(c)

SpecConc == InitConc /\ [][NextConc]_vars

(***************************************************************************)
(* Argument fetches of the entry points in the two calling conventions of  *)
(* the Go compiler.                                                        *)
(***************************************************************************)
\* the integer argument registers of the register calling convention, in order
IntArgRegs == <<"rax", "rbx", "rcx", "rdi", "rsi", "r8">>

RegIndex(reg) == CHOOSE k \in 1..Len(IntArgRegs) : IntArgRegs[k] = reg

\* the probed Go functions: the sizes in bytes of the receiver and of the
\* argument words, from the signatures in the comments above the probes
GoSignature ==
  [http2ClientConn_writeHeader |-> <<8, 8, 8, 8, 8>>,
   http2ClientConn_writeHeaders |-> <<8, 4, 1, 8, 8, 8, 8>>,
   http2serverConn_processHeaders |-> <<8, 8>>,
   http2serverConn_writeHeaders |-> <<8, 8, 8>>,
   http2clientConnReadLoop_handleResponse |-> <<8, 8, 8>>,
   loopyWriter_writeHeader |-> <<8, 4, 1, 8, 8, 8, 8>>,
   http2Server_operateHeaders |-> <<8, 8, 8, 8>>,
   http2Client_operateHeaders |-> <<8, 8>>]

GoFunctions == DOMAIN GoSignature

\* the values of one logical call: word k of the call holds base + k
ArgBases == {100, 200, 300, 400, 500, 600}

ArgValue(base, k) == base + k

AlignUp(off, size) == ((off + size - 1) \div size) * size

\* stack calling convention: the return address at rsp, then receiver and
\* arguments at their natural alignment ("8 + 8 + 4 + 4")
RECURSIVE StackOffsets(_, _, _)
StackOffsets(sizes, k, cur) ==
  IF k > Len(sizes) THEN <<>>
  ELSE <<AlignUp(cur, sizes[k])>> \o
       StackOffsets(sizes, k + 1, AlignUp(cur, sizes[k]) + sizes[k])

\* what a read finds where no argument of the call is: a negative number
\* that tells where it was read
Junk(n) == 0 - 1 - n

\* a register: its low bytes hold the value low, the bytes above are undefined
Register(v, bytes) == [low |-> v, bytes |-> bytes]

\* struct pt_regs and the stack memory at the entry of the probed function
\* of a binary of the given version
EntryContext(fn, base, version) ==
  LET sizes == GoSignature[fn]
      offs  == StackOffsets(sizes, 1, 8)
  IN  IF version >= GO_VERSION(1, 17, 0)
      THEN [regs  |-> [r \in {IntArgRegs[k] : k \in 1..Len(IntArgRegs)} |->
                         IF RegIndex(r) <= Len(sizes)
                         THEN Register(ArgValue(base, RegIndex(r)),
                                       sizes[RegIndex(r)])
                         ELSE Register(Junk(RegIndex(r)), 8)],
            rsp   |-> 0,
            stack |-> <<>>]
      ELSE [regs  |-> [r \in {IntArgRegs[k] : k \in 1..Len(IntArgRegs)} |->
                         Register(Junk(RegIndex(r)), 8)],
            rsp   |-> 0,
            stack |-> [a \in {offs[k] : k \in 1..Len(sizes)} |->
                         LET k == CHOOSE j \in 1..Len(sizes) : offs[j] = a
                         IN  [size |-> sizes[k], value |-> ArgValue(base, k)]]]

\* bpf_probe_read of size bytes at addr of the stack of the traced thread
bpf_probe_read_stack(ctx, addr, size) ==
  IF addr \in DOMAIN ctx.stack /\ ctx.stack[addr].size = size
  THEN ctx.stack[addr].value
  ELSE Junk(addr)

\* the value of a register, cast to size bytes
reg_value(ctx, reg, size) ==
  IF ctx.regs[reg].bytes >= size THEN ctx.regs[reg].low
  ELSE Junk(RegIndex(reg))

\* lines 1-11
get_the_first_parameter(ctx, info) ==
  IF info.version >= GO_VERSION(1, 17, 0) THEN reg_value(ctx, "rax", 8)
  ELSE bpf_probe_read_stack(ctx, ctx.rsp + 8, 8)

\* the fetches at the argument sites of the entry points: the variable
\* that is filled, the register read in the register convention, the
\* offset from rsp read in the stack convention and the bytes read
ArgSite(fn, var, reg, off, size) ==
  [fn |-> fn, var |-> var, reg |-> reg, off |-> off, size |-> size]

ArgSites ==
  {ArgSite("http2ClientConn_writeHeader", "data.name.ptr", "rbx", 16, 8),
   ArgSite("http2ClientConn_writeHeader", "data.name.len", "rcx", 24, 8),
   ArgSite("http2ClientConn_writeHeader", "data.value.ptr", "rdi", 32, 8),
   ArgSite("http2ClientConn_writeHeader", "data.value.len", "rsi", 40, 8),
   ArgSite("http2serverConn_processHeaders", "frame", "rbx", 16, 8),
   ArgSite("http2serverConn_writeHeaders", "ptr", "rcx", 24, 8),
   ArgSite("http2clientConnReadLoop_handleResponse", "frame", "rcx", 24, 8),
   ArgSite("loopyWriter_writeHeader", "fields.ptr", "rdi", 24, 8),
   ArgSite("loopyWriter_writeHeader", "fields.len", "rsi", 32, 8),
   ArgSite("loopyWriter_writeHeader", "fields.cap", "r8", 40, 8),
   ArgSite("loopyWriter_writeHeader", "headers.stream", "rbx", 16, 4),
   ArgSite("http2Server_operateHeaders", "frame", "rbx", 16, 8),
   ArgSite("http2Client_operateHeaders", "frame", "rbx", 16, 8)}

\* the version gate in front of every argument site excludes the boundary
fetch_arg_after_boundary(ctx, info, site) ==
  IF info.version > GO_VERSION(1, 17, 0) THEN reg_value(ctx, site.reg, site.size)
  ELSE bpf_probe_read_stack(ctx, ctx.rsp + site.off, site.size)

\* if (info->version >= GO_VERSION(1, 17, 0)) x = ctx->reg;
\* else bpf_probe_read(&x, sizeof(x), (void *)(ctx->rsp + off));
fetch_arg(ctx, info, site) ==
  IF info.version >= GO_VERSION(1, 17, 0) THEN reg_value(ctx, site.reg, site.size)
  ELSE bpf_probe_read_stack(ctx, ctx.rsp + site.off, site.size)

\* what an entry point of fn gets from its arguments
FetchArguments(fn, ctx, info) ==
  [var \in {s.var : s \in {x \in ArgSites : x.fn = fn}} \cup {"first"} |->
     IF var = "first" THEN get_the_first_parameter(ctx, info)
     ELSE fetch_arg(ctx, info, CHOOSE s \in ArgSites : s.fn = fn /\ s.var = var)]

InfoOf(version) == [version |-> version]

\* a probe of fn fires in a binary of some version and fetches its arguments
FetchEntry ==
  /\ call = NoCall
  /\ \E fn \in GoFunctions, base \in ArgBases, version \in Versions :
       call' = [op |-> "fetch", fn |-> fn, base |-> base, version |-> version,
                fetched |-> FetchArguments(fn, EntryContext(fn, base, version),
                                           InfoOf(version))]
  /\ UNCHANGED <<stack, trace_uid, socket_info_map, trace_stats,
                 http2_tcp_seq_map, tables, output, cpu>>

NextAbi == FetchEntry \/ Return

\* the argument fetches alone
SpecAbi == InitHeaders /\ [][NextAbi]_vars

(***************************************************************************)
(* The gRPC descriptor paths: the walk through the memory of the traced    *)
(* process from the receiver to the connection handed to                   *)
(* get_fd_from_tcp_or_tls_conn_interface.                                  *)
(***************************************************************************)
\* bpf_probe_read of one word; a read that fails leaves zero
read_word(mem, addr) == IF addr \in DOMAIN mem THEN mem[addr] ELSE 0

\* bpf_probe_read(&i, sizeof(i), addr) of a struct go_interface
read_interface(mem, addr) ==
  [type |-> read_word(mem, addr), ptr |-> read_word(mem, addr + 8)]

\* lines 13-19
is_grpc_syscallConn_interface(mem, ptr, info) ==
  read_interface(mem, ptr).type = info.credentials_syscallConn_itab

\* a walk: where it stands, the addresses it has read, the TLS flag it set
WalkFrom(ptr) == [ptr |-> ptr, reads |-> <<>>, tls |-> FALSE]

\* the wrapper is taken off without reading the connection inside it
unwrap_syscallConn_outer_only(mem, w, info) ==
  IF is_grpc_syscallConn_interface(mem, w.ptr, info)
  THEN [w EXCEPT !.tls = TRUE,
                 !.reads = @ \o <<w.ptr, w.ptr>>,
                 !.ptr = read_interface(mem, w.ptr).ptr]
  ELSE [w EXCEPT !.reads = Append(@, w.ptr)]

\* lines 52-58, 69-75, 102-108: the wrapper check and the unwrapping
unwrap_syscallConn(mem, w, info) ==
  IF is_grpc_syscallConn_interface(mem, w.ptr, info)
  THEN LET i == read_interface(mem, w.ptr)
       IN  [w EXCEPT !.tls = TRUE,
                     !.reads = @ \o <<w.ptr, w.ptr, i.ptr>>,
                     !.ptr = read_interface(mem, i.ptr).ptr]
  ELSE [w EXCEPT !.reads = Append(@, w.ptr)]

\* ptr += offset; bpf_probe_read(&ptr, sizeof(ptr), ptr)
follow(mem, w, offset) ==
  [w EXCEPT !.reads = Append(@, w.ptr + offset),
            !.ptr = read_word(mem, w.ptr + offset)]

advance(w, offset) == [w EXCEPT !.ptr = @ + offset]

\* lines 45-60
get_fd_from_grpc_http2Client_ctx(mem, ctx, info) ==
  unwrap_syscallConn(mem,
    advance(WalkFrom(get_the_first_parameter(ctx, info)),
            info.offsets.CONN_GRPC_HTTP2_CLIENT), info)

\* lines 62-77
get_fd_from_grpc_http2Server_ctx(mem, ctx, info) ==
  unwrap_syscallConn(mem,
    advance(WalkFrom(get_the_first_parameter(ctx, info)),
            info.offsets.CONN_GRPC_HTTP2_SERVER), info)

\* lines 90-110
get_fd_from_grpc_loopyWriter(mem, ctx, info) ==
  LET w1 == follow(mem, WalkFrom(get_the_first_parameter(ctx, info)),
                   info.offsets.FRAMER_GRPC_TRANSPORT_LOOPY_WRITER)
      w2 == follow(mem, w1, info.offsets.WRITER_GRPC_TRANSPORT_FRAMER)
  IN  unwrap_syscallConn(mem,
        advance(w2, info.offsets.CONN_GRPC_TRANSPORT_BUFWRITER), info)

\* the three gRPC entry points and the Go function each probes
GrpcPaths ==
  [grpc_http2Client |-> "http2Client_operateHeaders",
   grpc_http2Server |-> "http2Server_operateHeaders",
   grpc_loopyWriter |-> "loopyWriter_writeHeader"]

\* itab values: of credentials.syscallConn, of *net.TCPConn, none
SyscallConnItabs == {77, 0}
ConnItabs == {77, 55, 0}

\* where the connection interface of the receiver at recv lies
ConnAddress(path, recv) ==
  IF path = "grpc_http2Client" THEN recv + ProcOffsets.CONN_GRPC_HTTP2_CLIENT
  ELSE IF path = "grpc_http2Server" THEN recv + ProcOffsets.CONN_GRPC_HTTP2_SERVER
  ELSE recv + 3000 + ProcOffsets.CONN_GRPC_TRANSPORT_BUFWRITER

\* the memory of the traced process around the receiver at recv: the
\* connection interface has the type itab and points at an object that
\* begins with a net.Conn interface
ProcessMemory(path, recv, itab) ==
  LET conn == ConnAddress(path, recv)
      chain == IF path = "grpc_loopyWriter"
               THEN {<<recv + ProcOffsets.FRAMER_GRPC_TRANSPORT_LOOPY_WRITER,
                       recv + 2000>>,
                     <<recv + 2000 + ProcOffsets.WRITER_GRPC_TRANSPORT_FRAMER,
                       recv + 3000>>}
               ELSE {}
      cells == chain \cup {<<conn, itab>>, <<conn + 8, recv + 5000>>,
                           <<recv + 5000, 55>>, <<recv + 5008, recv + 6000>>}
  IN  [a \in {c[1] : c \in cells} |-> (CHOOSE c \in cells : c[1] = a)[2]]

Receivers == {100, 200, 300}

\* one of the gRPC probes fires and finds its connection
WalkEntry ==
  /\ call = NoCall
  /\ \E path \in DOMAIN GrpcPaths, recv \in Receivers, itab \in ConnItabs,
        T \in SyscallConnItabs, version \in Versions :
       LET info == ProcInfo(version, T)
           base == recv - 1
           ctx  == EntryContext(GrpcPaths[path], base, version)
           mem  == ProcessMemory(path, recv, itab)
           w    == IF path = "grpc_http2Client"
                   THEN get_fd_from_grpc_http2Client_ctx(mem, ctx, info)
                   ELSE IF path = "grpc_http2Server"
                   THEN get_fd_from_grpc_http2Server_ctx(mem, ctx, info)
                   ELSE get_fd_from_grpc_loopyWriter(mem, ctx, info)
       IN  /\ stack' = get_fd_from_grpc_conn(Machine, w.tls).stack
           /\ call' = [op |-> "walk", path |-> path, version |-> version,
                       T |-> T, itab |-> itab, mem |-> mem,
                       conn |-> ConnAddress(path, recv),
                       reads |-> w.reads, delegated |-> w.ptr]
  /\ UNCHANGED <<trace_uid, socket_info_map, trace_stats, http2_tcp_seq_map,
                 tables, output, cpu>>

NextWalk == WalkEntry \/ Return

\* the descriptor paths of the gRPC probes alone
SpecWalk == InitHeaders /\ [][NextWalk]_vars

(***************************************************************************)
(* What an invocation handed to the event channel.                         *)
(***************************************************************************)
SubmitOps ==
  {"http2serverConn_processHeaders", "http2clientConnReadLoop_handleResponse",
   "loopyWriter_writeHeader", "http2Server_operateHeaders",
   "http2Client_operateHeaders"}

IsSent(e) == e.outcome = "sent"

\* the records of the last invocation, in the order they were sent
Sent == SelectSeq(output, IsSent)

Kind(e) == e.stack.send_buffer.msg_type
NameLen(e) == e.stack.http2_buffer.header_len
ValueLen(e) == e.stack.http2_buffer.value_len

\* record e was built from header field f
FromField(e, f) == e.name = f.name /\ e.value = f.value

IsEndRecord(e, K) ==
  Kind(e) = K + MSG_END_INCREMENT /\ NameLen(e) = 0 /\ ValueLen(e) = 0

Fits(f) ==
  HTTP2_BUFFER_HEAD + (f.name.len % 1024) + (f.value.len % 1024)
    <= HTTP2_BUFFER_INFO_SIZE

\* a multi-field call with a base kind, at most the ceiling of fields and a
\* nonzero resolved sequence
MultiFieldCase ==
  /\ call.op \in SubmitOps
  /\ call.message_type \in {MSG_REQUEST, MSG_RESPONSE}
  /\ Len(call.fields) <= 9
  /\ call.tcp_seq # 0

\* the records are those of the fields fs in order, then one END record, and
\* the END record is the last thing the invocation did
FieldsThenEnd(fs) ==
  /\ Len(Sent) = Len(fs) + 1
  /\ \A i \in 1..Len(fs) :
       Kind(Sent[i]) = call.message_type /\ FromField(Sent[i], fs[i])
  /\ IsEndRecord(Sent[Len(fs) + 1], call.message_type)
  /\ IsSent(output[Len(output)])

\* C1 as stated: a multi-field call with N <= 9 fields of any lengths and a
\* nonzero resolved sequence emits exactly N field-records of kind K in source
\* order, then exactly one END record of kind K + 2 with zero lengths, and
\* nothing after it.
C1_EveryFieldThenEnd == MultiFieldCase => FieldsThenEnd(call.fields)

\* C1 amended: the field-records are those of the fields whose payload
\* 16 + masked name length + masked value length fits HTTP2_BUFFER_INFO_SIZE,
\* one each and in source order, followed by exactly one END record of kind
\* K + 2 with zero lengths, after which nothing is emitted.
C1_FittingFieldsThenEnd ==
  MultiFieldCase => FieldsThenEnd(SelectSeq(call.fields, Fits))

C1_Witness ==
  /\ MultiFieldCase
  /\ Len(call.fields) = 9
  /\ Len(Sent) = 10
  /\ Kind(Sent[10]) = MSG_RESPONSE_END

\* C2: an invocation whose own enrichment resolves no nonzero sequence emits
\* no record, whatever earlier invocations left in the scratch context.
C2_NoSequenceNoRecord == (call # NoCall /\ call.tcp_seq = 0) => Sent = <<>>

\* C3: while the member-offset entry is absent or not ready, an invocation
\* emits no record and allocates no socket identity.
C3_UnreadyAbandons ==
  (call # NoCall /\ tables \in {"no_offset", "unready"}) =>
     /\ Sent = <<>>
     /\ trace_uid = 0
     /\ socket_info_map = <<>>

\* the step is an invocation that reaches the socket id lines 286-305
EnrichedStep ==
  /\ call = NoCall
  /\ call' # NoCall
  /\ call'.tcp_seq # 0
  /\ tables \in {"ready", "no_stats"}

OthersKept(key) ==
  \A k \in DOMAIN socket_info_map \ {key} :
    k \in DOMAIN socket_info_map' /\ socket_info_map'[k] = socket_info_map[k]

\* C4: in sequential execution the first enriched event of a (pid, fd) pair
\* without a valid entry gets id = counter + 1, stores it under the pair and
\* raises the counter by exactly 1; a later enriched event of the pair, while
\* the entry is there, gets the stored id and changes neither counter nor map.
C4_IdempotentAllocation ==
  [][EnrichedStep =>
       LET key == <<call'.tgid, call'.fd>>
           id  == stack'.send_buffer.socket_id
       IN  /\ \A i \in 1..Len(output') :
                IsSent(output'[i]) => output'[i].stack.send_buffer.socket_id = id
           /\ IF key \in DOMAIN socket_info_map /\ socket_info_map[key].uid # 0
              THEN /\ id = socket_info_map[key].uid
                   /\ trace_uid' = trace_uid
                   /\ socket_info_map' = socket_info_map
              ELSE /\ id = trace_uid + 1
                   /\ trace_uid' = trace_uid + 1
                   /\ key \in DOMAIN socket_info_map'
                   /\ socket_info_map'[key].uid = trace_uid + 1
                   /\ DOMAIN socket_info_map' = DOMAIN socket_info_map \cup {key}
                   /\ OthersKept(key)]_vars

\* a later event of (100, 7): its id 1 was given before (100, 8) got id 2
C4_Witness ==
  /\ call # NoCall
  /\ call.tcp_seq # 0
  /\ tables = "ready"
  /\ call.fd = 7
  /\ trace_uid = 2
  /\ <<100, 7>> \in DOMAIN socket_info_map
  /\ socket_info_map[<<100, 7>>].uid = 1
  /\ Sent # <<>>
  /\ Sent[1].stack.send_buffer.socket_id = 1

\* the invocation on CPU c has its socket id in the scratch stack
HasSocketId(c) == cpu[c].pc \in {"inc_uid", "update", "stats", "done"}

\* C5: under every interleaving identity allocation is one atomic step: two
\* distinct pairs never share a socket id, two invocations that both see a
\* pair for the first time put the same id in their records, and the counter
\* has advanced by the number of distinct pairs first seen.
C5_AtomicAllocation ==
  /\ \A c, d \in CPUs :
       (/\ c # d
        /\ HasSocketId(c) /\ HasSocketId(d)
        /\ cpu[c].first /\ cpu[d].first
        /\ cpu[c].conn_key = cpu[d].conn_key)
          => cpu[c].socket_id = cpu[d].socket_id
  /\ \A k1, k2 \in DOMAIN socket_info_map :
       k1 # k2 => socket_info_map[k1].uid # socket_info_map[k2].uid
  /\ (\A c \in CPUs : cpu[c].pc = "idle") =>
        trace_uid = Cardinality(DOMAIN socket_info_map)

\* the sequence number http2_fill_common_socket is to resolve for the call c
ExpectedSeq(c) ==
  IF c.read
  THEN IF <<c.tgid, c.fd, c.read_seq>> \in DOMAIN http2_tcp_seq_map
       THEN http2_tcp_seq_map[<<c.tgid, c.fd, c.read_seq>>]
       ELSE 0
  ELSE c.write_seq

\* C6: a read event resolves to the begin value stored under (tgid, fd, end =
\* current read sequence), 0 when the key is absent; a write event resolves to
\* the raw write sequence; the dedup table is left as it was.
C6_SequenceResolution ==
  [][(call = NoCall /\ call' # NoCall) =>
       /\ call'.tcp_seq = ExpectedSeq(call')
       /\ (call'.tcp_seq # 0 => stack'.send_buffer.tcp_seq = ExpectedSeq(call'))
       /\ http2_tcp_seq_map' = http2_tcp_seq_map]_vars

C6_Witness ==
  /\ call.read
  /\ call.read_seq = 150
  /\ call.tcp_seq = 100
  /\ stack.send_buffer.tcp_seq = 100
  /\ Sent # <<>>

\* the call of http2_fill_buffer_and_send got past its first check
Processed(e) == e.outcome # "no_tcp_seq"

\* C7: for every field http2_fill_buffer_and_send processes, the stored name
\* length is the source name length & 0x03FF and the stored value length the
\* source value length & 0x03FF: lengths above the capacity wrap.
C7_MaskedLengths ==
  \A i \in 1..Len(output) :
    Processed(output[i]) =>
      /\ NameLen(output[i]) = output[i].name.len % 1024
      /\ ValueLen(output[i]) = output[i].value.len % 1024

C7_Witness ==
  \E i \in 1..Len(output) :
    /\ IsSent(output[i])
    /\ output[i].name.len = 1024
    /\ NameLen(output[i]) = 0

\* C8 as stated: a name of source length 2000 is stored with length 464.
C8_Length2000Is464 ==
  \A i \in 1..Len(output) :
    (Processed(output[i]) /\ output[i].name.len = 2000) => NameLen(output[i]) = 464

\* C8 amended: a name of source length 2000 is stored with length 976, which
\* is 2000 & 0x03FF.
C8_Length2000Is976 ==
  \A i \in 1..Len(output) :
    (Processed(output[i]) /\ output[i].name.len = 2000) => NameLen(output[i]) = 976

C8_Witness ==
  \E i \in 1..Len(output) :
    /\ IsSent(output[i])
    /\ output[i].name.len = 2000
    /\ NameLen(output[i]) = 976

\* the record length: fixed header plus payload
RecordLen(e) == e.stack.len

\* C9: the bytes handed to the event channel are the record length rounded up
\* and capped at the maximum: never below the record length unless that
\* exceeds 1024, then exactly the maximum, and never above 1024.
C9_RoundedAndCapped ==
  \A i \in 1..Len(output) :
    IsSent(output[i]) =>
      /\ output[i].bytes <= 1024
      /\ RecordLen(output[i]) <= 1024 => output[i].bytes >= RecordLen(output[i])
      /\ RecordLen(output[i]) > 1024 => output[i].bytes = 1024

\* index in the source slice of the field an output entry was built from
SourceIndex(e) == e.name.ptr[2]

\* C10: of a slice of more than 9 fields only the fields 0..8 are processed,
\* the END record is still sent after the ninth, and no invocation of
\* submit_http2_headers sends more than 10 records.
C10_CeilingOfNine ==
  call.op \in SubmitOps =>
    /\ Len(Sent) <= 10
    /\ Len(call.fields) > 9 =>
         /\ Len(output) = 10
         /\ \A i \in 1..9 : FromField(output[i], call.fields[i])
         /\ \A i \in 1..10 : SourceIndex(output[i]) <= 9
         /\ stack.send_buffer.tcp_seq # 0 =>
              /\ IsSent(output[10])
              /\ IsEndRecord(output[10], call.message_type)

C10_Witness ==
  /\ call.op \in SubmitOps
  /\ Len(call.fields) > 9
  /\ Len(Sent) = 10
  /\ IsEndRecord(Sent[10], call.message_type)

\* C11: within one invocation http2_fill_common_socket runs exactly once, and
\* all records the invocation emits carry the same socket identity, resolved
\* TCP sequence and direction, and the descriptor and the stream id of the call.
C11_OneEnrichment ==
  (call # NoCall /\ call.info) =>
    /\ call.enriched = 1
    /\ \A i \in 1..Len(Sent) :
         /\ Sent[i].stack.send_buffer.socket_id = Sent[1].stack.send_buffer.socket_id
         /\ Sent[i].stack.send_buffer.tcp_seq = Sent[1].stack.send_buffer.tcp_seq
         /\ Sent[i].stack.send_buffer.direction = Sent[1].stack.send_buffer.direction
         /\ Sent[i].stack.http2_buffer.fd = call.fd
         /\ Sent[i].stack.http2_buffer.stream_id = call.stream

\* two REQUEST field-records and one REQUEST_END record of one enrichment
C11_Witness ==
  /\ call.op = "http2serverConn_processHeaders"
  /\ call.enriched = 1
  /\ Len(Sent) = 3
  /\ Kind(Sent[1]) = MSG_REQUEST /\ Kind(Sent[2]) = MSG_REQUEST
  /\ Kind(Sent[3]) = MSG_REQUEST_END
  /\ Sent[3].stack.send_buffer.socket_id = Sent[1].stack.send_buffer.socket_id
  /\ Sent[3].stack.send_buffer.tcp_seq = 100

\* the register the site reads is the k-th one and its stack offset is 8 * k
WordForWord(site) == site.off = 8 * RegIndex(site.reg)

\* what the entry point of the call gets in a binary of the given version
FetchedIn(version) ==
  FetchArguments(call.fn, EntryContext(call.fn, call.base, version), InfoOf(version))

\* the argument values are the same in both calling conventions
SameInBothEras ==
  /\ \A version \in Versions : call.fetched = FetchedIn(version)
  /\ call.fetched["first"] = ArgValue(call.base, 1)
  /\ \A var \in DOMAIN call.fetched : call.fetched[var] > 0

\* C16 as stated: the argument values an entry point obtains are the same in
\* both calling conventions, and at every argument site the k-th argument
\* register is paired with the stack word at rsp + 8 * k.
C16_WordForWord ==
  call.op = "fetch" =>
    /\ SameInBothEras
    /\ \A site \in ArgSites : site.fn = call.fn => WordForWord(site)

\* C16 amended: the argument values are the same in both calling conventions
\* (registers from version 1.17.0 on, the stack before), and the k-th argument
\* register is paired with rsp + 8 * k at every site but the field slice of
\* the gRPC transport write, whose three words come from the registers 4 to 6
\* (rdi, rsi, r8) and from rsp + 24, 32 and 40: the 4-byte stream id and the
\* 1-byte end flag in front of it take a register each and share one stack word.
C16_SameValues ==
  call.op = "fetch" =>
    /\ SameInBothEras
    /\ \A site \in ArgSites :
         site.fn = call.fn =>
           IF site.fn = "loopyWriter_writeHeader" /\ site.var # "headers.stream"
           THEN site.off = 8 * (RegIndex(site.reg) - 1)
           ELSE WordForWord(site)

\* the field slice of the gRPC transport write at the version boundary
C16_Witness ==
  /\ call.op = "fetch"
  /\ call.fn = "loopyWriter_writeHeader"
  /\ call.version = GO_VERSION(1, 17, 0)
  /\ call.fetched["fields.len"] = ArgValue(call.base, 5)
  /\ call.fetched["headers.stream"] = ArgValue(call.base, 2)

\* the reads of the walk that follow the first read of the connection
\* interface and go to another address: the indirections made for a wrapper
ExtraIndirections ==
  LET first == CHOOSE i \in 1..Len(call.reads) :
                 /\ call.reads[i] = call.conn
                 /\ \A j \in 1..(i - 1) : call.reads[j] # call.conn
  IN  Cardinality({i \in (first + 1)..Len(call.reads) : call.reads[i] # call.conn})

\* C12: in the three gRPC descriptor paths, when the type field of the
\* connection interface equals the captured type identity T, exactly one extra
\* indirection is made before delegating (the connection inside the wrapper is
\* handed on) and the TLS flag is true; for any other type no extra
\* indirection is made, the interface itself is handed on and the flag is false.
C12_WrapperDetection ==
  call.op = "walk" =>
    IF call.itab = call.T
    THEN /\ stack.tls
         /\ ExtraIndirections = 1
         /\ call.delegated =
              read_word(call.mem, read_word(call.mem, call.conn + 8) + 8)
    ELSE /\ ~stack.tls
         /\ ExtraIndirections = 0
         /\ call.delegated = call.conn

\* the transport write loop finds the wrapper and hands on what is inside
C12_Witness ==
  /\ call.op = "walk"
  /\ call.path = "grpc_loopyWriter"
  /\ call.itab = 77 /\ call.T = 77
  /\ stack.tls
  /\ Len(call.reads) = 5
  /\ call.delegated = 6100

\* the protocol tag an invocation is to give its records
ProtocolOf(c) == IF c.wrapped THEN "PROTO_TLS_HTTP2" ELSE "PROTO_HTTP2"

\* C13: after any sequence of earlier invocations, the protocol tag of every
\* record an invocation emits is TLS-carried HTTP/2 exactly when that same
\* invocation detected the wrapper, and plain HTTP/2 otherwise.
C13_TlsFlagOfThisInvocation ==
  (call # NoCall /\ call.info /\ call.op \in SubmitOps \cup
     {"http2ClientConn_writeHeader", "http2ClientConn_writeHeaders",
      "http2serverConn_writeHeaders"}) =>
    /\ stack.tls = call.wrapped
    /\ \A i \in 1..Len(Sent) :
         Sent[i].stack.send_buffer.data_type = ProtocolOf(call)

\* C14: when no ProcInfo exists for the current process, a probe entry point
\* returns without emitting a record and leaves the TLS flag, the scratch
\* event context, the socket-identity counter, the socket-info map and the
\* statistics counter as they were.
C14_LookupMissNoOp ==
  [][(call = NoCall /\ call' # NoCall /\ ~call'.info) =>
       /\ output' = <<>>
       /\ stack' = stack
       /\ trace_uid' = trace_uid
       /\ socket_info_map' = socket_info_map
       /\ trace_stats' = trace_stats]_vars

\* a miss right after an invocation that found the wrapper
C14_Witness ==
  /\ call.op = "loopyWriter_writeHeader"
  /\ ~call.info
  /\ call.tgid \notin DOMAIN proc_info_map
  /\ stack.tls
  /\ stack.send_buffer.tcp_seq = 500
  /\ output = <<>>

EgressOps ==
  {"http2ClientConn_writeHeader", "http2ClientConn_writeHeaders",
   "http2serverConn_writeHeaders", "loopyWriter_writeHeader"}

\* the base kind of the row of the entry point in the entry-point table
RowKind(c) ==
  IF c.op \in {"http2ClientConn_writeHeader", "http2serverConn_processHeaders",
               "http2Server_operateHeaders"}
  THEN MSG_REQUEST
  ELSE IF c.op = "loopyWriter_writeHeader"
  THEN IF c.side = 0 THEN MSG_REQUEST ELSE MSG_RESPONSE
  ELSE MSG_RESPONSE

RowDirection(c) == IF c.op \in EgressOps THEN "T_EGRESS" ELSE "T_INGRESS"

\* the kinds of the records of the last invocation are those of its row
RowKinds ==
  IF call.op = "http2ClientConn_writeHeader"
  THEN \A i \in 1..Len(Sent) : Kind(Sent[i]) = MSG_REQUEST
  ELSE IF call.op = "http2ClientConn_writeHeaders"
  THEN /\ Len(Sent) <= 1
       /\ call.tcp_seq # 0 => Len(Sent) = 1
       /\ \A i \in 1..Len(Sent) : Kind(Sent[i]) = MSG_REQUEST_END
  ELSE /\ call.tcp_seq # 0 => Len(Sent) >= 1
       /\ \A i \in 1..Len(Sent) :
            Kind(Sent[i]) = IF i < Len(Sent) THEN RowKind(call)
                            ELSE RowKind(call) + MSG_END_INCREMENT

\* C15: every record an entry point emits has the kind and the direction of
\* its row in the entry-point table (the gRPC transport write has the base
\* kind REQUEST for side 0 and RESPONSE for every other side).
C15_KindAndDirection ==
  (call # NoCall /\ call.info /\ call.op \in SubmitOps \cup EgressOps) =>
    /\ RowKinds
    /\ \A i \in 1..Len(Sent) :
         Sent[i].stack.send_buffer.direction = RowDirection(call)

\* what one call of http2_fill_buffer_and_send did, without the answer of
\* the event channel
Attempt(e) ==
  [outcome |-> e.outcome, name |-> e.name, value |-> e.value, stack |-> e.stack,
   bytes |-> e.bytes]

\* the same invocation of submit_http2_headers with a channel that takes
\* every record
Unhindered ==
  submit_http2_headers(
    update_http2_tls(Machine, call'.wrapped),
    Headers(call'.read, call'.fd, call'.fields, call'.stream, call'.message_type),
    Env(call'.tgid, call'.read_seq, call'.write_seq))

\* C17: when emissions to the event channel fail, the invocation tries no
\* record twice, still attempts every remaining record of the call in order,
\* the END record included, and leaves the shared state as an invocation
\* without failures leaves it.
C17_DropOnly ==
  [][(call = NoCall /\ call' # NoCall /\ call'.op \in SubmitOps /\ call'.info) =>
       /\ Len(output') = Len(Unhindered.output)
       /\ \A i \in 1..Len(output') :
            Attempt(output'[i]) = Attempt(Unhindered.output[i])
       /\ stack' = Unhindered.stack
       /\ trace_uid' = Unhindered.trace_uid
       /\ socket_info_map' = Unhindered.socket_info_map
       /\ trace_stats' = Unhindered.trace_stats
       /\ call'.tcp_seq # 0 =>
            /\ IsSent(output'[Len(output')])
            /\ output'[Len(output')].stack.send_buffer.msg_type =
                 call'.message_type + MSG_END_INCREMENT]_vars

\* the first record is refused, the second and the END record go out
C17_Witness ==
  /\ call.op \in SubmitOps
  /\ call.channel_full = {1}
  /\ Len(call.fields) = 2
  /\ Len(Sent) = 3
  /\ ~Sent[1].delivered
  /\ Sent[2].delivered
  /\ Sent[3].delivered /\ IsEndRecord(Sent[3], call.message_type)

\* the invocation got as far as the five-tuple lines 238-278
TupleFilled ==
  /\ call # NoCall /\ call.info
  /\ call.tcp_seq # 0
  /\ tables \notin {"no_offset", "unready"}

\* the addresses and ports of the socket behind descriptor fd
LocalAddress(fd) ==
  IF get_socket_from_fd(fd).STRUCT_SOCK_FAMILY_OFFSET = "PF_INET"
  THEN get_socket_from_fd(fd).STRUCT_SOCK_SADDR_OFFSET
  ELSE get_socket_from_fd(fd).STRUCT_SOCK_IP6SADDR_OFFSET

RemoteAddress(fd) ==
  IF get_socket_from_fd(fd).STRUCT_SOCK_FAMILY_OFFSET = "PF_INET"
  THEN get_socket_from_fd(fd).STRUCT_SOCK_DADDR_OFFSET
  ELSE get_socket_from_fd(fd).STRUCT_SOCK_IP6DADDR_OFFSET

\* C18: the records of an invocation that extracted the five-tuple carry the
\* local and the remote address of the socket, with length 4 for IPv4 and 16
\* for IPv6, the destination port of the socket in host byte order as remote
\* port and its source port as local port.
C18_FiveTuple ==
  TupleFilled =>
    \A i \in 1..Len(Sent) :
      LET tuple == Sent[i].stack.send_buffer.tuple
      IN  /\ tuple.rcv_saddr = LocalAddress(call.fd)
          /\ tuple.daddr = RemoteAddress(call.fd)
          /\ tuple.addr_len = Len(LocalAddress(call.fd))
          /\ tuple.dport = IF call.fd = 7 THEN 443 ELSE 50051
          /\ tuple.num = IF call.fd = 7 THEN 40000 ELSE 8080

\* the server header-block write entry point with a nonzero resolved sequence
ServerWriteCase ==
  /\ call.op = "http2serverConn_writeHeaders"
  /\ call.info
  /\ call.tcp_seq # 0

ResField(text, len, source, what, value_len) ==
  [name |-> [ptr |-> <<text, 0>>, len |-> len],
   value |-> [ptr |-> <<source, what>>, len |-> value_len]]

OneIf(cond, f) == IF cond THEN <<f>> ELSE <<>>

\* the headers the response holds, in the order of the claim
ResFields(res) ==
  OneIf(res.httpResCode # 0,
        ResField(":status", 7, "status_value", res.httpResCode % 1000, 3))
  \o OneIf(res.date # 0, ResField("date", 4, "headerData.date", 0, res.date))
  \o OneIf(res.contentType # 0,
           ResField("content-type", 12, "headerData.contentType", 0,
                    res.contentType))
  \o OneIf(res.contentLength # 0,
           ResField("content-length", 14, "headerData.contentLength", 0,
                    res.contentLength))

TupleOf(fd) ==
  fill_tuple([stack |-> ZeroStack], get_socket_from_fd(fd)).stack.send_buffer.tuple

\* the header of record e was written by the invocation in call
HeaderOfThisInvocation(e) ==
  LET send_buffer == e.stack.send_buffer
      conn_key == gen_conn_key_id(call.tgid, call.fd)
  IN  /\ send_buffer.tcp_seq = call.tcp_seq
      /\ send_buffer.direction = IF call.read THEN "T_INGRESS" ELSE "T_EGRESS"
      /\ send_buffer.data_type = ProtocolOf(call)
      /\ send_buffer.tuple = TupleOf(call.fd)
      /\ is_socket_info_valid(socket_info_map, conn_key)
      /\ send_buffer.socket_id = socket_info_map[conn_key].uid
      /\ send_buffer.tgid = call.tgid
      /\ send_buffer.pid = ThreadOf(call.tgid)

\* C20: on a reused scratch context, every record an invocation emits has its
\* TCP sequence, direction, protocol tag, five-tuple, socket identity and
\* process and thread ids written by that same invocation, also when the
\* enrichment returns early.
C20_NoStaleHeader ==
  (call # NoCall /\ call.info) =>
    \A i \in 1..Len(Sent) : HeaderOfThisInvocation(Sent[i])

\* the same for the invocations whose enrichment ran to its end
C20_CompleteEnrichment ==
  (/\ call # NoCall /\ call.info
   /\ call.tcp_seq # 0
   /\ tables \in {"ready", "no_stats"}
   /\ is_socket_info_valid(socket_info_map, gen_conn_key_id(call.tgid, call.fd))
   /\ stack.send_buffer.tgid = call.tgid) =>
    \A i \in 1..Len(Sent) : HeaderOfThisInvocation(Sent[i])

(***************************************************************************)
(* One request of a client connection: single-header writes and then the   *)
(* header-block write, each an invocation of its probe on the same scratch *)
(* stack; call holds the connection and what was written so far, output    *)
(* the records of all the invocations of the request.                      *)
(***************************************************************************)
MaxWrites == 3

\* the header fields of the requests: two that fit and one that does not
RequestFields == {HeaderField(1, 1), HeaderField(1, 2), HeaderField(2, 2)}

RequestOf(tgid, fd, next) ==
  [op |-> "request", tgid |-> tgid, fd |-> fd, next_stream_id |-> next,
   writes |-> <<>>, closed |-> FALSE, end_seq |-> 0]

\* the machine of an invocation within a request: the records so far stay
RequestMachine == [Machine EXCEPT !.output = output]

RequestCommit(m, c) ==
  /\ stack' = m.stack
  /\ trace_uid' = m.trace_uid
  /\ socket_info_map' = m.socket_info_map
  /\ trace_stats' = m.trace_stats
  /\ output' = m.output
  /\ call' = c
  /\ UNCHANGED <<http2_tcp_seq_map, tables, cpu>>

\* a client connection starts a request after its nextStreamID was advanced
BeginRequest ==
  /\ call = NoCall
  /\ trace_uid < MaxSocketId
  /\ \E tgid \in Pids, fd \in FDs, next \in NextStreamIds :
       /\ call' = RequestOf(tgid, fd, next)
       /\ output' = <<>>
  /\ UNCHANGED <<stack, trace_uid, socket_info_map, trace_stats,
                 http2_tcp_seq_map, tables, cpu>>

\* the connection writes one header of the request
RequestWriteHeader ==
  /\ call.op = "request"
  /\ ~call.closed
  /\ Len(call.writes) < MaxWrites
  /\ \E field \in RequestFields, seq \in WriteSeqs :
       RequestCommit(
         http2ClientConn_writeHeader(RequestMachine, call.fd, call.next_stream_id,
                                     field, Env(call.tgid, 0, seq)),
         [call EXCEPT !.writes = Append(@, [field |-> field, write_seq |-> seq])])

\* the connection writes the header block of the request
RequestWriteHeaders ==
  /\ call.op = "request"
  /\ ~call.closed
  /\ \E seq \in WriteSeqs :
       RequestCommit(
         http2ClientConn_writeHeaders(RequestMachine, call.fd, call.next_stream_id,
                                      Env(call.tgid, 0, seq)),
         [call EXCEPT !.closed = TRUE, !.end_seq = seq])

NextRequest ==
  \/ BeginRequest
  \/ RequestWriteHeader
  \/ RequestWriteHeaders
  \/ Return

\* the requests of client connections, one after the other
SpecRequest == InitHeaders /\ [][NextRequest]_vars

\* (next - 2) modulo 2^32 for the values of the nextStreamID field
ExpectedStream(next) ==
  IF next = U32(1) THEN <<65535, 65535>> ELSE U32(next[2] - 2)

StreamOf(e) == e.stack.http2_buffer.stream_id
DescriptorOf(e) == e.stack.http2_buffer.fd

\* every write of the request resolved a nonzero sequence and wrote a header
\* that fits the buffer
EveryWriteEmits ==
  /\ call.end_seq # 0
  /\ \A i \in 1..Len(call.writes) :
       call.writes[i].write_seq # 0 /\ Fits(call.writes[i].field)

\* C22: both client write entry points report the stream id (nextStreamID - 2)
\* modulo 2^32: over k single-header writes and the header-block write of one
\* connection with an unchanged nextStreamID, every REQUEST record and the
\* REQUEST_END record carry that stream id and the descriptor of the
\* connection, and the REQUEST_END record comes after all REQUEST records;
\* when every write emits, these are k REQUEST records and one REQUEST_END.
C22_RequestCorrelation ==
  call.op = "request" =>
    /\ \A i \in 1..Len(Sent) :
         /\ StreamOf(Sent[i]) = ExpectedStream(call.next_stream_id)
         /\ DescriptorOf(Sent[i]) = call.fd
         /\ Kind(Sent[i]) = MSG_REQUEST_END =>
              /\ call.closed
              /\ i = Len(Sent)
         /\ Kind(Sent[i]) # MSG_REQUEST_END =>
              /\ Kind(Sent[i]) = MSG_REQUEST
              /\ \E j \in 1..Len(call.writes) :
                   FromField(Sent[i], call.writes[j].field)
    /\ (call.closed /\ EveryWriteEmits) =>
         /\ Len(Sent) = Len(call.writes) + 1
         /\ \A i \in 1..Len(call.writes) :
              /\ Kind(Sent[i]) = MSG_REQUEST
              /\ FromField(Sent[i], call.writes[i].field)
         /\ IsEndRecord(Sent[Len(Sent)], MSG_REQUEST)

\* three headers and the header block of a connection whose nextStreamID is 1
C22_Witness ==
  /\ call.op = "request"
  /\ call.closed
  /\ call.next_stream_id = U32(1)
  /\ call.fd = 8
  /\ Len(call.writes) = 3
  /\ EveryWriteEmits
  /\ Len(Sent) = 4
  /\ StreamOf(Sent[1]) = <<65535, 65535>>
  /\ StreamOf(Sent[4]) = <<65535, 65535>>
  /\ Kind(Sent[4]) = MSG_REQUEST_END

\* the payload length stored in a scratch stack
PayloadLength(s) == <<s.send_buffer.syscall_len, s.send_buffer.data_len>>

\* the fields of slice fs that the loop of submit_http2_headers visits
Visited(fs) ==
  IF Len(fs) < HEADER_LOOP_CEILING THEN Len(fs) ELSE HEADER_LOOP_CEILING

\* the capacity check of http2_fill_buffer_and_send turned a field away
TooLong(e) == e.outcome = "too_long"

\* C21: a header field whose payload 16 + masked name length + masked value
\* length exceeds HTTP2_BUFFER_INFO_SIZE produces no record and leaves the
\* stored payload length as it was; the fields after it are still processed,
\* each with a record when it fits, and the END record is still emitted.
C21_OversizeSkipsOneField ==
  [][(/\ call = NoCall /\ call' # NoCall /\ call'.info
      /\ call'.op \in SubmitOps
      /\ \E i \in 1..Len(output') : TooLong(output'[i])) =>
       LET fs == call'.fields
           n  == Visited(fs)
       IN  /\ Len(output') = n + 1
           /\ \A i \in 1..n :
                /\ FromField(output'[i], fs[i])
                /\ IsSent(output'[i]) <=> Fits(fs[i])
                /\ TooLong(output'[i]) <=> ~Fits(fs[i])
                /\ TooLong(output'[i]) =>
                     PayloadLength(output'[i].stack) =
                       PayloadLength(IF i = 1 THEN stack ELSE output'[i - 1].stack)
           /\ IsSent(output'[n + 1])
           /\ IsEndRecord(output'[n + 1], call'.message_type)]_vars

\* a field that does not fit between two that do: the record of the third
\* field and the END record follow, and the length of the first record is
\* still stored while the second field is turned away
C21_Witness ==
  /\ call.op \in SubmitOps
  /\ call.info
  /\ Len(call.fields) = 5
  /\ Len(output) = 6
  /\ IsSent(output[1]) /\ TooLong(output[2]) /\ IsSent(output[3])
  /\ TooLong(output[4]) /\ TooLong(output[5])
  /\ PayloadLength(output[2].stack) = <<27, 27>>
  /\ IsEndRecord(output[6], call.message_type) /\ IsSent(output[6])

====
